---- MODULE Spec2Model ----
(***************************************************************************)
(* Note-sharing backend (src/backend): the users, notes and shared_notes   *)
(* tables and the request handlers of main.py / routers/*.py that read and *)
(* write them.  Every handler runs in its own database session and commits *)
(* once, so a request is one step; RaceSpec takes it in two steps.  A      *)
(* handler is an operator from the request and the current tables to an    *)
(* Outcome (status, body, tables after the commit); its action installs    *)
(* the outcome.  The columns no                                            *)
(* handler reads (User.created_at, User.is_active, SharedNote.shared_at,   *)
(* SharedNote.shared_by_user_id) are left out.                             *)
(*                                                                         *)
(* Six specifications share the handlers:                                  *)
(*   Spec        registration and the note and share handlers, which read  *)
(*               of an account its id, email and username only;            *)
(*   AuthSpec    the account handlers register, login and google_auth,     *)
(*               the only writers of the users table;                      *)
(*   StoredSpec  the two list handlers over note rows whose tags column    *)
(*               was not written by create_note / update_note;             *)
(*   SessionSpec registration and note requests presented with fresh,      *)
(*               expired and forged session tokens while time passes;      *)
(*   RaceSpec    update_note, share_note, register and google_auth in two  *)
(*               steps each, the queries and then the commit, so that two  *)
(*               requests interleave;                                      *)
(*   ExternalSpec the account and list handlers over a store in which an   *)
(*               external account owns a note and is a grantee.            *)
(*                                                                         *)
(* routers/share.py is written against column names that differ from      *)
(* models.py: its Note.owner_id is read as Note.user_id, its               *)
(* SharedNote.shared_with_id as SharedNote.shared_with_user_id, and it     *)
(* looks the grantee up by email (share) or by user id (unshare).          *)
(***************************************************************************)
EXTENDS Integers, Sequences, FiniteSets, TLC

VARIABLES users, notes, shared_notes, now, response, sessions

vars == <<users, notes, shared_notes, now, response, sessions>>

(***************************************************************************)
(* Bounds and request payloads                                             *)
(***************************************************************************)
\* datetime.utcnow() is read at most MaxTime times in a behaviour
MaxTime == 2

\* largest rowid the shared_notes table reaches
MaxShareId == 2

None == "None"

\* a column that holds NULL where a timestamp is expected
NoTime == -1

\* Optional[List[str]]: Nothing for None, Some(l) for the list l
Nothing == <<>>
Some(l) == <<l>>

\* len(user.password) of the passwords used in the requests
PasswordLen(p) ==
    CASE p = "pw"      -> 2
      [] p = "secret1" -> 7
      [] p = "secret2" -> 7
      [] p = "long72"  -> 72
      [] OTHER         -> 73

RegisterRequests ==
    { [email |-> "alice@x", username |-> "alice", password |-> "secret1", name |-> None],
      [email |-> "bob@x",   username |-> "bob",   password |-> "secret2", name |-> "Bob"],
      [email |-> "alice@x", username |-> "bob",   password |-> "secret1", name |-> None],
      [email |-> "dave@x",  username |-> "dave",  password |-> "pw",      name |-> None],
      [email |-> "erin@x",  username |-> "erin",  password |-> "long73",  name |-> None] }

\* POST /auth/login payloads: an email, a username, a generated username and
\* an identifier no account has, each with a right and a wrong password
LoginIdentifiers == {"alice@x", "alice", "bob", "alice@g", "alice1", "nobody"}
LoginPasswords == {"secret1", "secret2", "long73"}

\* Google ID tokens: whether verify_oauth2_token accepts the token, the
\* exception it raises when it does not (ValueError for a malformed, expired
\* or wrongly addressed token, TransportError when Google's certificates
\* cannot be fetched), and the claims it returns ('name' may be missing)
NoName == "NoName"
GoogleTokens ==
    { [valid |-> FALSE, raises |-> "ValueError",     email |-> "alice@g", name |-> "Al",   sub |-> "g1"],
      [valid |-> FALSE, raises |-> "TransportError", email |-> "alice@g", name |-> "Al",   sub |-> "g1"],
      [valid |-> TRUE,  raises |-> None,             email |-> "alice@g", name |-> "Al",   sub |-> "g1"],
      [valid |-> TRUE,  raises |-> None,             email |-> "alice@g", name |-> NoName, sub |-> "g1"],
      [valid |-> TRUE,  raises |-> None,             email |-> "alice@h", name |-> "Al",   sub |-> "g2"],
      [valid |-> TRUE,  raises |-> None,             email |-> "alice@h", name |-> NoName, sub |-> "g1"],
      [valid |-> TRUE,  raises |-> None,             email |-> "bob@x",   name |-> "Bob",  sub |-> "g3"] }

\* email.split('@')[0] of the addresses in the requests
LocalPart(email) ==
    CASE email \in {"alice@x", "alice@g", "alice@h"} -> "alice"
      [] email = "bob@x"  -> "bob"
      [] email = "dave@x" -> "dave"
      [] email = "erin@x" -> "erin"
      [] OTHER            -> "nobody"

\* grantee identifiers a share request may name; "nobody" is never registered
Usernames == {"alice", "bob", "nobody"}
Emails    == {"alice@x", "bob@x", "nobody@x"}
UserIds   == 1 .. 3

\* a tag is a string, kept as its sequence of characters
TagHome  == <<"h">>
TagQuote == <<"a", "\"">>

NoteRequests ==
    { [title |-> "Groceries", content |-> "milk,eggs", tags |-> <<TagHome>>],
      [title |-> "Todo",      content |-> "",          tags |-> <<>>] }

\* class NoteRequest(BaseModel): title: str, content: str, tags: List[str] = []
\* built from a request body in which "tags" may be missing
NoteRequest(payload) ==
    [title |-> payload.title,
     content |-> payload.content,
     tags |-> IF payload.tags = Nothing THEN <<>> ELSE payload.tags[1]]

NoteUpdateRequests ==
    { [title |-> None,   content |-> None,    tags |-> Nothing],
      [title |-> "List", content |-> None,    tags |-> Nothing],
      [title |-> None,   content |-> "bread", tags |-> Some(<<TagQuote, TagHome>>)] }

\* note ids a request names; AllNoteIds adds an id no note ever has
NoteIds == 1 .. MaxTime
AllNoteIds == 1 .. (MaxTime + 1)

(***************************************************************************)
(* Helpers                                                                 *)
(***************************************************************************)
Max(S) == CHOOSE x \in S : \A y \in S : y <= x
Min(S) == CHOOSE x \in S : \A y \in S : x <= y

\* variant: the new id is the number of rows plus one
NextId_Count(table) == Cardinality(DOMAIN table) + 1

\* INTEGER PRIMARY KEY of SQLite: one more than the largest rowid in the table
NextId(table) ==
    IF DOMAIN table = {} THEN 1 ELSE Max(DOMAIN table) + 1

RECURSIVE SortedSeq(_)
SortedSeq(S) == IF S = {} THEN <<>> ELSE <<Min(S)>> \o SortedSeq(S \ {Min(S)})

\* table with row id removed / with row id set to row
Remove(table, ids) == [i \in DOMAIN table \ ids |-> table[i]]
Put(table, id, row) == [i \in DOMAIN table \cup {id} |-> IF i = id THEN row ELSE table[i]]

\* db.query(User).filter(User.email == email).first(); 0 when there is none
UserByEmail(email) ==
    LET S == {u \in DOMAIN users : users[u].email = email}
    IN IF S = {} THEN 0 ELSE Min(S)

\* variant: the first row of the table stands in when no username matches
UserByUsername_FirstRow(username) ==
    LET S == {u \in DOMAIN users : users[u].username = username}
    IN IF S # {} THEN Min(S)
       ELSE IF DOMAIN users # {} THEN Min(DOMAIN users)
       ELSE 0

\* db.query(User).filter(User.username == username).first()
UserByUsername(username) ==
    LET S == {u \in DOMAIN users : users[u].username = username}
    IN IF S = {} THEN 0 ELSE Min(S)

\* variant: the Note.user_id == user.id condition is missing from the filter
OwnedNote_AnyOwner(note_id, user) == IF note_id \in DOMAIN notes THEN note_id ELSE 0

\* db.query(Note).filter(Note.id == note_id, Note.user_id == user.id).first()
OwnedNote(note_id, user) ==
    IF note_id \in DOMAIN notes /\ notes[note_id].user_id = user THEN note_id ELSE 0

\* db.query(SharedNote).filter(note_id == .., shared_with_user_id == ..).first()
FindShare(note_id, grantee) ==
    LET S == {s \in DOMAIN shared_notes :
                 /\ shared_notes[s].note_id = note_id
                 /\ shared_notes[s].shared_with_user_id = grantee}
    IN IF S = {} THEN 0 ELSE Min(S)

\* variant: the note_id condition is missing from the filter
FindEditShare_AnyNote(note_id, grantee) ==
    LET S == {s \in DOMAIN shared_notes :
                 /\ shared_notes[s].shared_with_user_id = grantee
                 /\ shared_notes[s].can_edit = 1}
    IN IF S = {} THEN 0 ELSE Min(S)

\* variant: the can_edit == 1 condition is missing from the filter
FindEditShare_AnyShare(note_id, grantee) == FindShare(note_id, grantee)

\* ... the same filter with SharedNote.can_edit == 1
FindEditShare(note_id, grantee) ==
    LET S == {s \in DOMAIN shared_notes :
                 /\ shared_notes[s].note_id = note_id
                 /\ shared_notes[s].shared_with_user_id = grantee
                 /\ shared_notes[s].can_edit = 1}
    IN IF S = {} THEN 0 ELSE Min(S)

(***************************************************************************)
(* json.dumps / json.loads of a tag list, character by character           *)
(***************************************************************************)
\* variant: the quote and the backslash are written without a backslash
EscapeChar_Raw(c) == <<c>>

EscapeChar(c) ==
    IF c = "\"" THEN <<"\\", "\"">>
    ELSE IF c = "\\" THEN <<"\\", "\\">>
    ELSE <<c>>

RECURSIVE EncodeChars(_)
EncodeChars(s) == IF s = <<>> THEN <<>> ELSE EscapeChar(Head(s)) \o EncodeChars(Tail(s))

EncodeString(s) == <<"\"">> \o EncodeChars(s) \o <<"\"">>

RECURSIVE JoinItems(_)
JoinItems(l) ==
    IF l = <<>> THEN <<>>
    ELSE IF Len(l) = 1 THEN EncodeString(l[1])
    ELSE EncodeString(l[1]) \o <<",", " ">> \o JoinItems(Tail(l))

json_dumps(l) == <<"[">> \o JoinItems(l) \o <<"]">>

DecodeError == [ok |-> FALSE, value |-> <<>>, next |-> 0]

RECURSIVE SkipWs(_, _)
SkipWs(s, i) == IF i <= Len(s) /\ s[i] = " " THEN SkipWs(s, i + 1) ELSE i

\* scans a string body from position i (after the opening quote)
RECURSIVE ScanString(_, _, _)
ScanString(s, i, acc) ==
    IF i > Len(s) THEN DecodeError
    ELSE IF s[i] = "\"" THEN [ok |-> TRUE, value |-> acc, next |-> i + 1]
    ELSE IF s[i] = "\\"
         THEN IF i + 1 <= Len(s) /\ s[i + 1] \in {"\"", "\\"}
              THEN ScanString(s, i + 2, Append(acc, s[i + 1]))
              ELSE DecodeError
    ELSE ScanString(s, i + 1, Append(acc, s[i]))

\* parses  string (ws "," ws string)* ws "]" ws  from position i
RECURSIVE ParseItems(_, _, _)
ParseItems(s, i, acc) ==
    IF i > Len(s) \/ s[i] # "\"" THEN DecodeError
    ELSE LET str == ScanString(s, i + 1, <<>>)
         IN IF ~str.ok THEN DecodeError
            ELSE LET j == SkipWs(s, str.next)
                 IN IF j > Len(s) THEN DecodeError
                    ELSE IF s[j] = "]"
                         THEN IF SkipWs(s, j + 1) = Len(s) + 1
                              THEN [ok |-> TRUE, value |-> Append(acc, str.value), next |-> Len(s) + 1]
                              ELSE DecodeError
                    ELSE IF s[j] = ","
                         THEN ParseItems(s, SkipWs(s, j + 1), Append(acc, str.value))
                    ELSE DecodeError

json_loads(s) ==
    LET i == SkipWs(s, 1)
    IN IF i > Len(s) \/ s[i] # "[" THEN DecodeError
       ELSE LET j == SkipWs(s, i + 1)
            IN IF j <= Len(s) /\ s[j] = "]"
               THEN IF SkipWs(s, j + 1) = Len(s) + 1
                    THEN [ok |-> TRUE, value |-> <<>>, next |-> Len(s) + 1]
                    ELSE DecodeError
               ELSE ParseItems(s, j, <<>>)

\* try: tags = json.loads(note.tags) if note.tags else []   except: tags = []
DecodeTags(stored) ==
    IF stored = <<>> THEN <<>>
    ELSE IF json_loads(stored).ok THEN json_loads(stored).value
    ELSE <<>>

(***************************************************************************)
(* Outcomes and tokens                                                     *)
(***************************************************************************)
Outcome(status, body, u, n, s, t) ==
    [status |-> status, body |-> body, users |-> u, notes |-> n, shared_notes |-> s, now |-> t]

\* response bodies: a message, a list of NoteResponse, or a token with the user
Message(m) == [message |-> m, notes |-> <<>>, access_token |-> <<>>]
NotesList(l) == [message |-> "", notes |-> l, access_token |-> <<>>]
TokenResponse(t) == [message |-> "", notes |-> <<>>, access_token |-> <<t>>]

\* raise HTTPException(status_code=status): nothing is committed
HTTPException(status) == Outcome(status, Message("error"), users, notes, shared_notes, now)

\* raise HTTPException(status_code=status, detail=detail)
HTTPError(status, detail) == Outcome(status, Message(detail), users, notes, shared_notes, now)

\* password[:72] when the password is longer than 72: "long73" is "long72"
\* followed by one more character
Truncate72(password) == IF PasswordLen(password) > 72 THEN "long72" ELSE password

\* pwd_context.hash(password)
get_password_hash(password) == <<"bcrypt", Truncate72(password)>>

\* hashed_password of an account without a password (NULL)
NoHash == <<>>

\* variant: the result of the verification is not used
verify_password_Always(plain_password, hashed_password) == TRUE

\* pwd_context.verify(plain_password, hashed_password)
verify_password(plain_password, hashed_password) ==
    hashed_password = <<"bcrypt", Truncate72(plain_password)>>

\* SECRET_KEY, and a key an attacker signs with
SECRET_KEY == "SECRET_KEY"
ForgedKey == "forged"

\* the clock counts in steps of 12 hours: timedelta(hours=24) is two steps
HoursPerTick == 12
TokenLifetime == 24 \div HoursPerTick

\* jwt.encode(to_encode, key, algorithm=ALGORITHM): the claims and the key
\* the signature was made with
jwt_encode(sub, exp, key) == [sub |-> sub, exp |-> exp, key |-> key]

\* the token create_access_token signs in main.py: the payload it is given
\* and exp = utcnow() + 24 hours
create_access_token(sub) == jwt_encode(sub, now + TokenLifetime, SECRET_KEY)

\* jwt.decode raises JWTError for a signature made with another key and for
\* an expired token; verify_token turns it into a 401
JWTError == "JWTError"

\* variant: the signature is checked, the expiry is not
verify_token_NoExpiry(token) ==
    IF token.key = SECRET_KEY THEN token.sub ELSE JWTError

verify_token(token) ==
    IF token.key = SECRET_KEY /\ now < token.exp THEN token.sub ELSE JWTError

\* the session tokens of a client that has just logged in: one per account
Tokens == {create_access_token(users[u].email) : u \in DOMAIN users}

\* every session token a client may present: the ones issued to the accounts
\* at any time up to now, and tokens signed with another key
PresentedTokens ==
    {jwt_encode(users[u].email, t + TokenLifetime, SECRET_KEY) :
        u \in DOMAIN users, t \in 0 .. now}
    \cup {jwt_encode(users[u].email, now + TokenLifetime, ForgedKey) : u \in DOMAIN users}

\* the user the presented token authenticates, 0 when it is refused
Caller(token) == UserByEmail(verify_token(token))

(***************************************************************************)
(* Initial state: empty tables after Base.metadata.create_all              *)
(***************************************************************************)
Init ==
    /\ users = <<>>
    /\ notes = <<>>
    /\ shared_notes = <<>>
    /\ now = 0
    /\ response = [op |-> "start", status |-> 0, user |-> 0, note_id |-> 0,
                   body |-> Message("")]
    /\ sessions = <<>>

\* the commit of a handler's outcome and the response the client sees
Commit(op, r, user, note_id) ==
    /\ r.now <= MaxTime
    /\ DOMAIN r.shared_notes \subseteq 1 .. MaxShareId
    /\ users' = r.users
    /\ notes' = r.notes
    /\ shared_notes' = r.shared_notes
    /\ now' = r.now
    /\ response' = [op |-> op, status |-> r.status, user |-> user, note_id |-> note_id,
                    body |-> r.body]
    /\ UNCHANGED sessions

(***************************************************************************)
(* POST /auth/register                                                     *)
(***************************************************************************)
\* variant: the username query is missing, only the email is checked
register_NoUsernameCheck(user) ==
    IF PasswordLen(user.password) < 6
    THEN HTTPError(400, "Password must be at least 6 characters long")
    ELSE IF PasswordLen(user.password) > 72
    THEN HTTPError(400, "Password cannot be longer than 72 characters")
    ELSE IF UserByEmail(user.email) # 0 THEN HTTPError(400, "Email already registered")
    ELSE Outcome(200, TokenResponse(create_access_token(user.email)),
                 Put(users, NextId(users),
                     [email |-> user.email,
                      username |-> user.username,
                      name |-> IF user.name # None THEN user.name ELSE user.username,
                      hashed_password |-> get_password_hash(user.password),
                      google_id |-> None,
                      auth_provider |-> "local"]),
                 notes, shared_notes, now)

register(user) ==
    IF PasswordLen(user.password) < 6
    THEN HTTPError(400, "Password must be at least 6 characters long")
    ELSE IF PasswordLen(user.password) > 72
    THEN HTTPError(400, "Password cannot be longer than 72 characters")
    ELSE IF UserByEmail(user.email) # 0 THEN HTTPError(400, "Email already registered")
    ELSE IF UserByUsername(user.username) # 0 THEN HTTPError(400, "Username already taken")
    ELSE Outcome(200, TokenResponse(create_access_token(user.email)),
                 Put(users, NextId(users),
                     [email |-> user.email,
                      username |-> user.username,
                      name |-> IF user.name # None THEN user.name ELSE user.username,
                      hashed_password |-> get_password_hash(user.password),
                      google_id |-> None,
                      auth_provider |-> "local"]),
                 notes, shared_notes, now)

(***************************************************************************)
(* POST /auth/login                                                        *)
(***************************************************************************)
\* db.query(User).filter((User.email == identifier) |
\*                       (User.username == identifier)).first()
UserByIdentifier(identifier) ==
    LET S == {u \in DOMAIN users :
                 users[u].email = identifier \/ users[u].username = identifier}
    IN IF S = {} THEN 0 ELSE Min(S)

login(user_login) ==
    LET db_user == UserByIdentifier(user_login.identifier)
    IN IF db_user = 0 THEN HTTPError(401, "Invalid credentials")
       ELSE IF users[db_user].auth_provider = "google"
       THEN HTTPError(400, "This account uses Google sign-in")
       ELSE IF ~verify_password(user_login.password, users[db_user].hashed_password)
       THEN HTTPError(401, "Invalid credentials")
       ELSE Outcome(200, TokenResponse(create_access_token(users[db_user].email)),
                    users, notes, shared_notes, now)

(***************************************************************************)
(* POST /auth/google                                                       *)
(***************************************************************************)
\* idinfo.get('name', email.split('@')[0])
GoogleName(idinfo) == IF idinfo.name # NoName THEN idinfo.name ELSE LocalPart(idinfo.email)

\* variant: "if" instead of "while", the suffixed name is not looked up again
GenerateUsername_Once(base_username, username, counter) ==
    IF UserByUsername(username) # 0
    THEN base_username \o ToString(counter)
    ELSE username

\* the while loop of google_auth: username, then base_username followed by
\* counter = 1, 2, ... until no user has the name
RECURSIVE GenerateUsername(_, _, _)
GenerateUsername(base_username, username, counter) ==
    IF UserByUsername(username) # 0
    THEN GenerateUsername(base_username, base_username \o ToString(counter), counter + 1)
    ELSE username

\* variant: the new account is given the hash of an empty password
GoogleUser_WithHash(idinfo) ==
    [email |-> idinfo.email,
     username |-> GenerateUsername(LocalPart(idinfo.email), LocalPart(idinfo.email), 1),
     name |-> GoogleName(idinfo),
     hashed_password |-> get_password_hash(""),
     google_id |-> idinfo.sub,
     auth_provider |-> "google"]

\* db_user = User(email=..., ..., auth_provider="google", hashed_password=None)
GoogleUser(idinfo) ==
    [email |-> idinfo.email,
     username |-> GenerateUsername(LocalPart(idinfo.email), LocalPart(idinfo.email), 1),
     name |-> GoogleName(idinfo),
     hashed_password |-> NoHash,
     google_id |-> idinfo.sub,
     auth_provider |-> "google"]

\* UNIQUE(google_id): another row already holds the id, the commit raises
\* IntegrityError
GoogleIdTaken(google_id, db_user) ==
    \E u \in DOMAIN users \ {db_user} : users[u].google_id = google_id

\* every exception but ValueError raised inside the try block, the
\* HTTPException of the local-account branch included, leaves as a 500
\* variant: a repeated login writes the row again, the generated username
\* included, instead of assigning name and google_id
google_auth_Reprovision(idinfo) ==
    IF ~idinfo.valid
    THEN IF idinfo.raises = "ValueError"
         THEN HTTPError(400, "Invalid Google token")
         ELSE HTTPError(500, "Authentication failed")
    ELSE LET db_user == UserByEmail(idinfo.email)
         IN IF db_user # 0
            THEN IF users[db_user].auth_provider # "google"
                 THEN HTTPError(500, "Authentication failed")
                 ELSE IF GoogleIdTaken(idinfo.sub, db_user)
                 THEN HTTPError(500, "Authentication failed")
                 ELSE Outcome(200, TokenResponse(create_access_token(users[db_user].email)),
                              [users EXCEPT ![db_user] = GoogleUser(idinfo)],
                              notes, shared_notes, now)
            ELSE IF GoogleIdTaken(idinfo.sub, 0)
                 THEN HTTPError(500, "Authentication failed")
                 ELSE Outcome(200, TokenResponse(create_access_token(idinfo.email)),
                              Put(users, NextId(users), GoogleUser(idinfo)),
                              notes, shared_notes, now)

google_auth(idinfo) ==
    IF ~idinfo.valid
    THEN IF idinfo.raises = "ValueError"
         THEN HTTPError(400, "Invalid Google token")
         ELSE HTTPError(500, "Authentication failed")
    ELSE LET db_user == UserByEmail(idinfo.email)
         IN IF db_user # 0
            THEN IF users[db_user].auth_provider # "google"
                 THEN HTTPError(500, "Authentication failed")
                 ELSE IF GoogleIdTaken(idinfo.sub, db_user)
                 THEN HTTPError(500, "Authentication failed")
                 ELSE Outcome(200, TokenResponse(create_access_token(users[db_user].email)),
                              [users EXCEPT ![db_user].name = GoogleName(idinfo),
                                            ![db_user].google_id = idinfo.sub],
                              notes, shared_notes, now)
            ELSE IF GoogleIdTaken(idinfo.sub, 0)
                 THEN HTTPError(500, "Authentication failed")
                 ELSE Outcome(200, TokenResponse(create_access_token(idinfo.email)),
                              Put(users, NextId(users), GoogleUser(idinfo)),
                              notes, shared_notes, now)

(***************************************************************************)
(* GET /notes and GET /notes/shared                                        *)
(***************************************************************************)
isoformat(t) == <<"iso", t>>

lastEdited(note) ==
    IF note.updated_at # NoTime THEN isoformat(note.updated_at) ELSE isoformat(note.created_at)

NoteResponse(id, note, owner, isShared, canEdit) ==
    [id |-> id, title |-> note.title, content |-> note.content,
     tags |-> DecodeTags(note.tags), lastEdited |-> lastEdited(note),
     owner |-> owner, isShared |-> isShared, canEdit |-> canEdit]

\* variant: every note is listed, whoever owns it
UserNotes_AllNotes(user) == SortedSeq(DOMAIN notes)

\* user.notes: the notes whose user_id is the user, in rowid order
UserNotes(user) == SortedSeq({n \in DOMAIN notes : notes[n].user_id = user})

\* user.shared_with_me: the shared_notes rows whose shared_with_user_id is the user
SharedWithMe(user) ==
    SortedSeq({s \in DOMAIN shared_notes : shared_notes[s].shared_with_user_id = user})

\* variant: canEdit is taken from the presence of the row, not from its flag
SharedEntry_AlwaysEditable(s) ==
    NoteResponse(shared_notes[s].note_id, notes[shared_notes[s].note_id],
                 users[notes[shared_notes[s].note_id].user_id].username,
                 TRUE, TRUE)

\* the entry get_shared_notes builds for one shared_notes row
SharedEntry(s) ==
    NoteResponse(shared_notes[s].note_id, notes[shared_notes[s].note_id],
                 users[notes[shared_notes[s].note_id].user_id].username,
                 TRUE, shared_notes[s].can_edit # 0)

\* variant: json.loads is called outside the try block, a note whose tags do
\* not decode fails the request
get_notes_DecodeRaises(token) ==
    LET email == verify_token(token)
        user == UserByEmail(email)
    IN IF email = JWTError THEN HTTPError(401, "Invalid token")
       ELSE IF user = 0 THEN HTTPException(404)
       ELSE IF \E i \in 1 .. Len(UserNotes(user)) :
                  /\ notes[UserNotes(user)[i]].tags # <<>>
                  /\ ~json_loads(notes[UserNotes(user)[i]].tags).ok
       THEN HTTPException(500)
       ELSE Outcome(200,
                    NotesList([i \in 1 .. Len(UserNotes(user)) |->
                        NoteResponse(UserNotes(user)[i], notes[UserNotes(user)[i]],
                                     users[user].username, FALSE, TRUE)]),
                    users, notes, shared_notes, now)

get_notes(token) ==
    LET email == verify_token(token)
        user == UserByEmail(email)
    IN IF email = JWTError THEN HTTPError(401, "Invalid token")
       ELSE IF user = 0 THEN HTTPException(404)
       ELSE Outcome(200,
                    NotesList([i \in 1 .. Len(UserNotes(user)) |->
                        NoteResponse(UserNotes(user)[i], notes[UserNotes(user)[i]],
                                     users[user].username, FALSE, TRUE)]),
                    users, notes, shared_notes, now)

get_shared_notes(token) ==
    LET email == verify_token(token)
        user == UserByEmail(email)
    IN IF email = JWTError THEN HTTPError(401, "Invalid token")
       ELSE IF user = 0 THEN HTTPException(404)
       ELSE IF \E i \in 1 .. Len(SharedWithMe(user)) :
                  shared_notes[SharedWithMe(user)[i]].note_id \notin DOMAIN notes
       THEN HTTPException(500)
       ELSE Outcome(200,
                    NotesList([i \in 1 .. Len(SharedWithMe(user)) |->
                        SharedEntry(SharedWithMe(user)[i])]),
                    users, notes, shared_notes, now)

(***************************************************************************)
(* POST /notes, PUT /notes/{note_id}, DELETE /notes/{note_id}              *)
(***************************************************************************)
create_note(note, token) ==
    LET email == verify_token(token)
        user == UserByEmail(email)
    IN IF email = JWTError THEN HTTPError(401, "Invalid token")
       ELSE IF user = 0 THEN HTTPException(404)
       ELSE Outcome(200, Message("Note created"), users,
                    Put(notes, NextId(notes),
                        [title |-> note.title,
                         content |-> note.content,
                         tags |-> json_dumps(note.tags),
                         created_at |-> now,
                         updated_at |-> now,
                         user_id |-> user]),
                    shared_notes, now + 1)

\* the note update_note writes: the caller's own note, else the note of a
\* shared_notes row for the caller with can_edit = 1; 0 when there is neither
EditableNote(note_id, user) ==
    IF OwnedNote(note_id, user) # 0 THEN OwnedNote(note_id, user)
    ELSE IF FindEditShare(note_id, user) # 0
         THEN shared_notes[FindEditShare(note_id, user)].note_id
    ELSE 0

\* variant: updated_at is refreshed only when a field is supplied
ApplyUpdate_StampOnChange(row, note, time) ==
    [row EXCEPT
        !.title = IF note.title # None THEN note.title ELSE @,
        !.content = IF note.content # None THEN note.content ELSE @,
        !.tags = IF note.tags # Nothing THEN json_dumps(note.tags[1]) ELSE @,
        !.updated_at = IF note.title # None \/ note.content # None \/ note.tags # Nothing
                       THEN time ELSE @]

\* variant: "if note.title:" instead of "if note.title is not None:", so that an
\* empty title, content or tag list is taken for a field that was not supplied
ApplyUpdate_Truthy(row, note, time) ==
    [row EXCEPT
        !.title = IF note.title # None /\ note.title # "" THEN note.title ELSE @,
        !.content = IF note.content # None /\ note.content # "" THEN note.content ELSE @,
        !.tags = IF note.tags # Nothing /\ note.tags # Some(<<>>)
                 THEN json_dumps(note.tags[1]) ELSE @,
        !.updated_at = time]

\* the assignments of update_note to the note row
ApplyUpdate(row, note, time) ==
    [row EXCEPT
        !.title = IF note.title # None THEN note.title ELSE @,
        !.content = IF note.content # None THEN note.content ELSE @,
        !.tags = IF note.tags # Nothing THEN json_dumps(note.tags[1]) ELSE @,
        !.updated_at = time]

\* variant: the editor who saves the note becomes its owner
update_note_TakesOwnership(note_id, note, token) ==
    LET email == verify_token(token)
        user == UserByEmail(email)
        db_note == EditableNote(note_id, user)
    IN IF email = JWTError THEN HTTPError(401, "Invalid token")
       ELSE IF user = 0 THEN HTTPException(404)
       ELSE IF db_note = 0 THEN HTTPException(403)
       ELSE IF db_note \notin DOMAIN notes THEN HTTPException(500)
       ELSE Outcome(200, Message("Note updated successfully"), users,
                    [notes EXCEPT ![db_note] = [ApplyUpdate(@, note, now) EXCEPT !.user_id = user]],
                    shared_notes, now + 1)

update_note(note_id, note, token) ==
    LET email == verify_token(token)
        user == UserByEmail(email)
        db_note == EditableNote(note_id, user)
    IN IF email = JWTError THEN HTTPError(401, "Invalid token")
       ELSE IF user = 0 THEN HTTPException(404)
       ELSE IF db_note = 0 THEN HTTPException(403)
       ELSE IF db_note \notin DOMAIN notes THEN HTTPException(500)
       ELSE Outcome(200, Message("Note updated successfully"), users,
                    [notes EXCEPT ![db_note] = ApplyUpdate(@, note, now)],
                    shared_notes, now + 1)

\* variant: the relationship has no cascade, the rows of a deleted note stay
SharesOfNote_NoCascade(note_id) == {}

\* cascade="all, delete-orphan" on Note.shared_instances
SharesOfNote(note_id) == {s \in DOMAIN shared_notes : shared_notes[s].note_id = note_id}

\* variant: delete resolves the note the way update does, so that a grantee
\* with edit permission may delete
delete_note_EditorDeletes(note_id, token) ==
    LET email == verify_token(token)
        user == UserByEmail(email)
        db_note == EditableNote(note_id, user)
    IN IF email = JWTError THEN HTTPError(401, "Invalid token")
       ELSE IF user = 0 THEN HTTPException(404)
       ELSE IF db_note = 0 THEN HTTPException(404)
       ELSE Outcome(200, Message("Note deleted successfully"), users,
                    Remove(notes, {db_note}),
                    Remove(shared_notes, SharesOfNote(db_note)), now)

delete_note(note_id, token) ==
    LET email == verify_token(token)
        user == UserByEmail(email)
        db_note == OwnedNote(note_id, user)
    IN IF email = JWTError THEN HTTPError(401, "Invalid token")
       ELSE IF user = 0 THEN HTTPException(404)
       ELSE IF db_note = 0 THEN HTTPException(404)
       ELSE Outcome(200, Message("Note deleted successfully"), users,
                    Remove(notes, {db_note}),
                    Remove(shared_notes, SharesOfNote(db_note)), now)

(***************************************************************************)
(* POST /notes/{note_id}/share, DELETE /notes/{note_id}/share/{username}   *)
(* (main.py, routers/notes.py)                                             *)
(***************************************************************************)
\* 1 if share_req.can_edit else 0
EditFlag(can_edit) == IF can_edit THEN 1 ELSE 0

\* variant: the existing row is never looked up, every share inserts
UpsertShare_AlwaysInsert(note_id, grantee, flag) ==
    Put(shared_notes, NextId(shared_notes),
        [note_id |-> note_id, shared_with_user_id |-> grantee, can_edit |-> flag])

\* variant: an existing row is found but its can_edit is left as it was
UpsertShare_KeepFlag(note_id, grantee, flag) ==
    IF FindShare(note_id, grantee) # 0
    THEN shared_notes
    ELSE UpsertShare_AlwaysInsert(note_id, grantee, flag)

\* existing_share.can_edit = ...  or  db.add(SharedNote(...))
UpsertShare(note_id, grantee, flag) ==
    IF FindShare(note_id, grantee) # 0
    THEN [shared_notes EXCEPT ![FindShare(note_id, grantee)].can_edit = flag]
    ELSE Put(shared_notes, NextId(shared_notes),
             [note_id |-> note_id,
              shared_with_user_id |-> grantee,
              can_edit |-> flag])

\* variant: the self-share check is missing
IsSelf_Never(share_with_user, user) == FALSE

\* if share_with_user.id == user.id
IsSelf(share_with_user, user) == share_with_user = user

\* the message tells an updated share from a new one
ShareMessage(note_id, grantee) ==
    IF FindShare(note_id, grantee) # 0
    THEN Message("Share permissions updated")
    ELSE Message("Note shared successfully")

\* variant: the row is written before the self-share check refuses the request
share_note_WriteThenRefuse(note_id, share_req, token) ==
    LET email == verify_token(token)
        user == UserByEmail(email)
        share_with_user == UserByUsername(share_req.username)
    IN IF email = JWTError THEN HTTPError(401, "Invalid token")
       ELSE IF user = 0 THEN HTTPException(404)
       ELSE IF OwnedNote(note_id, user) = 0 THEN HTTPException(404)
       ELSE IF share_with_user = 0 THEN HTTPException(404)
       ELSE Outcome(IF IsSelf(share_with_user, user) THEN 400 ELSE 200,
                    ShareMessage(note_id, share_with_user), users, notes,
                    UpsertShare(note_id, share_with_user, EditFlag(share_req.can_edit)),
                    now)

share_note(note_id, share_req, token) ==
    LET email == verify_token(token)
        user == UserByEmail(email)
        share_with_user == UserByUsername(share_req.username)
    IN IF email = JWTError THEN HTTPError(401, "Invalid token")
       ELSE IF user = 0 THEN HTTPException(404)
       ELSE IF OwnedNote(note_id, user) = 0 THEN HTTPException(404)
       ELSE IF share_with_user = 0 THEN HTTPException(404)
       ELSE IF IsSelf(share_with_user, user) THEN HTTPException(400)
       ELSE Outcome(200, ShareMessage(note_id, share_with_user), users, notes,
                    UpsertShare(note_id, share_with_user, EditFlag(share_req.can_edit)),
                    now)

\* variant: the delete is not narrowed to the note, every row of the grantee goes
unshare_note_AllOfGrantee(note_id, username, token) ==
    LET email == verify_token(token)
        user == UserByEmail(email)
        shared_user == UserByUsername(username)
    IN IF email = JWTError THEN HTTPError(401, "Invalid token")
       ELSE IF user = 0 THEN HTTPException(404)
       ELSE IF OwnedNote(note_id, user) = 0 THEN HTTPException(404)
       ELSE IF shared_user = 0 THEN HTTPException(404)
       ELSE IF FindShare(note_id, shared_user) = 0 THEN HTTPException(404)
       ELSE Outcome(200, Message("Note unshared successfully"), users, notes,
                    Remove(shared_notes,
                           {s \in DOMAIN shared_notes :
                               shared_notes[s].shared_with_user_id = shared_user}),
                    now)

unshare_note(note_id, username, token) ==
    LET email == verify_token(token)
        user == UserByEmail(email)
        shared_user == UserByUsername(username)
    IN IF email = JWTError THEN HTTPError(401, "Invalid token")
       ELSE IF user = 0 THEN HTTPException(404)
       ELSE IF OwnedNote(note_id, user) = 0 THEN HTTPException(404)
       ELSE IF shared_user = 0 THEN HTTPException(404)
       ELSE IF FindShare(note_id, shared_user) = 0 THEN HTTPException(404)
       ELSE Outcome(200, Message("Note unshared successfully"), users, notes,
                    Remove(shared_notes, {FindShare(note_id, shared_user)}), now)

(***************************************************************************)
(* POST /notes/{note_id}/share, DELETE /notes/{note_id}/share/{user_id}    *)
(* (routers/share.py)                                                      *)
(***************************************************************************)
share_router_share_note(note_id, share_request, token) ==
    LET email == verify_token(token)
        current_user == UserByEmail(email)
        user_to_share == UserByEmail(share_request.email)
    IN IF email = JWTError THEN HTTPError(401, "Invalid token")
       ELSE IF current_user = 0 THEN HTTPException(404)
       ELSE IF note_id \notin DOMAIN notes THEN HTTPException(404)
       ELSE IF notes[note_id].user_id # current_user THEN HTTPException(403)
       ELSE IF user_to_share = 0 THEN HTTPException(404)
       ELSE IF IsSelf(user_to_share, current_user) THEN HTTPException(400)
       ELSE Outcome(200, ShareMessage(note_id, user_to_share), users, notes,
                    UpsertShare(note_id, user_to_share, EditFlag(share_request.can_edit)),
                    now)

share_router_unshare_note(note_id, user_id, token) ==
    LET email == verify_token(token)
        current_user == UserByEmail(email)
    IN IF email = JWTError THEN HTTPError(401, "Invalid token")
       ELSE IF current_user = 0 THEN HTTPException(404)
       ELSE IF note_id \notin DOMAIN notes THEN HTTPException(404)
       ELSE IF notes[note_id].user_id # current_user THEN HTTPException(403)
       ELSE IF FindShare(note_id, user_id) = 0 THEN HTTPException(404)
       ELSE Outcome(200, Message("Note unshared successfully"), users, notes,
                    Remove(shared_notes, {FindShare(note_id, user_id)}), now)

(***************************************************************************)
(* Requests                                                                *)
(***************************************************************************)
Register ==
    \E user \in RegisterRequests :
        Commit("register", register(user), 0, 0)

Login ==
    \E identifier \in LoginIdentifiers, password \in LoginPasswords :
        Commit("login", login([identifier |-> identifier, password |-> password]),
               UserByIdentifier(identifier), 0)

GoogleAuth ==
    \E idinfo \in GoogleTokens :
        Commit("google_auth", google_auth(idinfo),
               IF idinfo.valid THEN UserByEmail(idinfo.email) ELSE 0, 0)

GetNotesWith(tokens) ==
    \E token \in tokens :
        Commit("get_notes", get_notes(token), Caller(token), 0)

GetNotes == GetNotesWith(Tokens)

GetSharedNotes ==
    \E token \in Tokens :
        Commit("get_shared_notes", get_shared_notes(token), Caller(token), 0)

CreateNoteWith(tokens) ==
    \E note \in NoteRequests, token \in tokens :
        Commit("create_note", create_note(note, token), Caller(token), NextId(notes))

CreateNote == CreateNoteWith(Tokens)

UpdateNote ==
    \E note_id \in NoteIds, note \in NoteUpdateRequests, token \in Tokens :
        Commit("update_note", update_note(note_id, note, token), Caller(token), note_id)

DeleteNoteWith(tokens) ==
    \E note_id \in NoteIds, token \in tokens :
        Commit("delete_note", delete_note(note_id, token), Caller(token), note_id)

DeleteNote == DeleteNoteWith(Tokens)

ShareNoteWith(tokens) ==
    \E note_id \in NoteIds, username \in Usernames, can_edit \in BOOLEAN, token \in tokens :
        Commit("share_note",
               share_note(note_id, [username |-> username, can_edit |-> can_edit], token),
               Caller(token), note_id)

ShareNote == ShareNoteWith(Tokens)

UnshareNote ==
    \E note_id \in NoteIds, username \in Usernames, token \in Tokens :
        Commit("unshare_note", unshare_note(note_id, username, token),
               Caller(token), note_id)

ShareRouterShareNote ==
    \E note_id \in NoteIds, email \in Emails, can_edit \in BOOLEAN, token \in Tokens :
        Commit("share_router_share_note",
               share_router_share_note(note_id, [email |-> email, can_edit |-> can_edit], token),
               Caller(token), note_id)

ShareRouterUnshareNote ==
    \E note_id \in NoteIds, user_id \in UserIds, token \in Tokens :
        Commit("share_router_unshare_note", share_router_unshare_note(note_id, user_id, token),
               Caller(token), note_id)

\* twelve hours pass without a request
Tick ==
    /\ now < MaxTime
    /\ now' = now + 1
    /\ UNCHANGED <<users, notes, shared_notes, response, sessions>>

(***************************************************************************)
(* Properties                                                              *)
(***************************************************************************)
\* the session token of user u
TokenOf(u) == create_access_token(users[u].email)

IsOwner(u, n) == n \in DOMAIN notes /\ notes[n].user_id = u

\* the shared_notes rows of the pair (n, g)
ShareRows(n, g) ==
    {s \in DOMAIN shared_notes :
        shared_notes[s].note_id = n /\ shared_notes[s].shared_with_user_id = g}

HasEditShare(u, n) == \E s \in ShareRows(n, u) : shared_notes[s].can_edit = 1
HasReadOnlyShare(u, n) == \E s \in ShareRows(n, u) : shared_notes[s].can_edit = 0

\* a handler outcome that committed nothing
NothingChanged(r) ==
    /\ r.users = users
    /\ r.notes = notes
    /\ r.shared_notes = shared_notes
    /\ r.now = now

\* C1: for every user U and note id N, update_note(U, N) succeeds if and only
\* if U owns N or a shared_notes row (N, U) with can_edit = 1 exists; otherwise
\* it fails with 403 Forbidden and no note (title, content, tags, updated_at)
\* is changed.
C1_UpdateAuthorized ==
    \A u \in DOMAIN users, n \in AllNoteIds, req \in NoteUpdateRequests :
        LET r == update_note(n, req, TokenOf(u))
            allowed == IsOwner(u, n) \/ HasEditShare(u, n)
        IN /\ (r.status = 200) <=> allowed
           /\ ~allowed => r.status = 403 /\ NothingChanged(r)

\* a grantee with a read-only share has just been refused an update
C1_Witness ==
    /\ response.op = "update_note"
    /\ response.status = 403
    /\ response.note_id \in DOMAIN notes
    /\ HasReadOnlyShare(response.user, response.note_id)

\* C2: in every reachable state there is at most one shared_notes row for
\* each (note, grantee) pair.
C2_OneSharePerPair ==
    \A s1, s2 \in DOMAIN shared_notes :
        (/\ shared_notes[s1].note_id = shared_notes[s2].note_id
         /\ shared_notes[s1].shared_with_user_id = shared_notes[s2].shared_with_user_id)
        => s1 = s2

\* a pair has been shared again while another share row exists
C2_Witness ==
    /\ response.op = "share_note"
    /\ response.status = 200
    /\ response.body.message = "Share permissions updated"
    /\ Cardinality(DOMAIN shared_notes) = 2

\* C3: when the owner shares note N with grantee G again (a row (N, G) already
\* exists from an earlier share) with can_edit = b, the table afterwards holds
\* exactly one row for (N, G), its can_edit is b, and sharing with the value
\* the row already has leaves the table unchanged.
C3_ReshareOverwrites ==
    \A u \in DOMAIN users, g \in DOMAIN users, n \in DOMAIN notes, b \in BOOLEAN :
        (IsOwner(u, n) /\ ShareRows(n, g) # {}) =>
            LET r == share_note(n, [username |-> users[g].username, can_edit |-> b], TokenOf(u))
                after == {s \in DOMAIN r.shared_notes :
                             /\ r.shared_notes[s].note_id = n
                             /\ r.shared_notes[s].shared_with_user_id = g}
            IN /\ r.status = 200
               /\ Cardinality(after) = 1
               /\ \A s \in after : r.shared_notes[s].can_edit = (IF b THEN 1 ELSE 0)
               /\ (\A s \in ShareRows(n, g) : shared_notes[s].can_edit = (IF b THEN 1 ELSE 0))
                    => r.shared_notes = shared_notes
               /\ r.notes = notes /\ r.users = users

\* the owner has shared a pair again and the row now grants edit permission
C3_Witness ==
    /\ response.op = "share_note"
    /\ response.status = 200
    /\ response.body.message = "Share permissions updated"
    /\ \E s \in DOMAIN shared_notes :
          /\ shared_notes[s].note_id = response.note_id
          /\ shared_notes[s].can_edit = 1

\* C4: no reachable state holds a shared_notes row whose grantee owns the
\* shared note; a share request by the owner that resolves to the owner fails
\* with 400 InvalidArgument and commits nothing.
C4_NoSelfShare ==
    /\ \A s \in DOMAIN shared_notes :
          /\ shared_notes[s].note_id \in DOMAIN notes
          /\ shared_notes[s].shared_with_user_id # notes[shared_notes[s].note_id].user_id
    /\ \A u \in DOMAIN users, n \in DOMAIN notes, b \in BOOLEAN :
          IsOwner(u, n) =>
            LET r == share_note(n, [username |-> users[u].username, can_edit |-> b],
                                TokenOf(u))
                q == share_router_share_note(n, [email |-> users[u].email, can_edit |-> b],
                                             TokenOf(u))
            IN /\ r.status = 400 /\ NothingChanged(r)
               /\ q.status = 400 /\ NothingChanged(q)

\* an owner's share with themselves has just been refused
C4_Witness ==
    /\ response.op = "share_note"
    /\ response.status = 400
    /\ IsOwner(response.user, response.note_id)

\* C5: delete_note(U, N) removes note N (and nothing but N and its share
\* rows) when U owns N; for every other caller, a grantee with can_edit = 1
\* included, it fails with 404/403 and the notes and shared_notes tables are
\* unchanged.
C5_DeleteOwnerOnly ==
    \A u \in DOMAIN users, n \in AllNoteIds :
        LET r == delete_note(n, TokenOf(u))
        IN IF IsOwner(u, n)
           THEN /\ r.status = 200
                /\ DOMAIN r.notes = DOMAIN notes \ {n}
                /\ \A m \in DOMAIN r.notes : r.notes[m] = notes[m]
           ELSE /\ r.status \in {403, 404}
                /\ NothingChanged(r)

\* a grantee with edit permission has just been refused a delete
C5_Witness ==
    /\ response.op = "delete_note"
    /\ response.status = 404
    /\ HasEditShare(response.user, response.note_id)
    /\ response.note_id \in DOMAIN notes

\* the four share / unshare outcomes of a request by user u on note id n
ShareOutcomes(u, n) ==
    {share_note(n, [username |-> name, can_edit |-> b], TokenOf(u)) :
        name \in Usernames, b \in BOOLEAN}
    \cup {unshare_note(n, name, TokenOf(u)) : name \in Usernames}
    \cup {share_router_share_note(n, [email |-> e, can_edit |-> b], TokenOf(u)) :
        e \in Emails, b \in BOOLEAN}
    \cup {share_router_unshare_note(n, id, TokenOf(u)) : id \in UserIds}

\* C6: a share or unshare request on note N by a user who does not own N,
\* a grantee with edit permission included, fails and leaves the shared_notes
\* table unchanged.
C6_OnlyOwnerShares ==
    \A u \in DOMAIN users, n \in AllNoteIds :
        ~IsOwner(u, n) =>
            \A r \in ShareOutcomes(u, n) :
                r.status \in {403, 404} /\ NothingChanged(r)

\* a grantee with edit permission has just been refused a share of the note
C6_Witness ==
    /\ response.op = "share_note"
    /\ response.status = 404
    /\ response.note_id \in DOMAIN notes
    /\ HasEditShare(response.user, response.note_id)

\* C7: in every state that follows the owner's share of N with G, for as long
\* as the row (N, G) stands: while its can_edit is 0, G's update of N fails
\* with 403; once a re-share has set it to 1, G's update of N succeeds and the
\* note's lastEdited changes; in both cases G's delete of N fails with 404/403
\* and removes nothing.
C7_ShareThenEdit ==
    \A s \in DOMAIN shared_notes, req \in NoteUpdateRequests :
        LET n == shared_notes[s].note_id
            g == shared_notes[s].shared_with_user_id
            r == update_note(n, req, TokenOf(g))
            d == delete_note(n, TokenOf(g))
        IN /\ shared_notes[s].can_edit = 0 => r.status = 403 /\ NothingChanged(r)
           /\ shared_notes[s].can_edit = 1 =>
                 /\ r.status = 200
                 /\ lastEdited(r.notes[n]) # lastEdited(notes[n])
           /\ d.status \in {403, 404} /\ NothingChanged(d)

\* the grantee's update has just succeeded on a note that is shared with them
\* for editing, and the note's timestamp is no longer that of its creation
C7_Witness ==
    /\ response.op = "update_note"
    /\ response.status = 200
    /\ HasEditShare(response.user, response.note_id)
    /\ notes[response.note_id].updated_at # notes[response.note_id].created_at

\* every update of note id n by user g is refused with 403
Denied(n, g) ==
    \A req \in NoteUpdateRequests : update_note(n, req, TokenOf(g)).status = 403

\* note id n is in g's shared-with-me list
ListedShared(n, g) ==
    LET l == get_shared_notes(TokenOf(g)).body.notes
    IN \E i \in 1 .. Len(l) : l[i].id = n

ShareOps == {"share_note", "share_router_share_note"}
UnshareOps == {"unshare_note", "share_router_unshare_note"}

\* C8: authorization reads the current tables only.  A step in which the
\* owner's unshare of (N, G) or re-share of (N, G) with can_edit = false
\* completes leaves G refused: every update of N by G fails with 403; in the
\* state an unshare of N leaves, N is in the shared-with-me list of no user
\* without a row on N.  G stays refused across every later step that writes a
\* table, until a new share of N is granted (or G creates a note under that
\* id): no earlier permission remains usable.
C8_NoStalePermission ==
    [][\A n \in NoteIds, g \in DOMAIN users :
          /\ (/\ response.op \in UnshareOps
              /\ response.status = 200
              /\ response.note_id = n
              /\ ShareRows(n, g) = {})
             => ~ListedShared(n, g)
          /\ (/\ response'.op \in UnshareOps
              /\ response'.status = 200
              /\ response'.note_id = n
              /\ ShareRows(n, g) # {}
              /\ ShareRows(n, g)' = {})
             => Denied(n, g)'
          /\ (/\ response'.op \in ShareOps
              /\ response'.status = 200
              /\ response'.note_id = n
              /\ ShareRows(n, g) # {}
              /\ \A s \in ShareRows(n, g)' : shared_notes'[s].can_edit = 0)
             => Denied(n, g)'
          /\ (/\ <<users, notes, shared_notes>>' # <<users, notes, shared_notes>>
              /\ Denied(n, g)
              /\ ~(/\ response'.op \in ShareOps
                   /\ response'.status = 200
                   /\ response'.note_id = n)
              /\ ~(/\ response'.op = "create_note"
                   /\ response'.user = g
                   /\ response'.note_id = n))
             => Denied(n, g)'
      ]_vars

\* an unshare has just completed on a note that had been edited, and the
\* former grantee holds no row on it any more
C8_Witness ==
    /\ response.op = "unshare_note"
    /\ response.status = 200
    /\ response.note_id \in DOMAIN notes
    /\ notes[response.note_id].updated_at # notes[response.note_id].created_at
    /\ \A s \in DOMAIN shared_notes : shared_notes[s].note_id # response.note_id
    /\ \E g \in DOMAIN users : g # response.user /\ Denied(response.note_id, g)

\* C9: for every user U, list-owned(U) returns exactly the notes whose owner
\* is U, once each, every entry with isShared = false and canEdit = true; a
\* note owned by U is in no other user's list-owned result.
C9_ListOwned ==
    \A u \in DOMAIN users :
        LET r == get_notes(TokenOf(u))
            l == r.body.notes
            owned == {n \in DOMAIN notes : notes[n].user_id = u}
        IN /\ r.status = 200
           /\ {l[i].id : i \in DOMAIN l} = owned
           /\ Len(l) = Cardinality(owned)
           /\ \A i \in DOMAIN l :
                 /\ l[i].isShared = FALSE
                 /\ l[i].canEdit = TRUE
                 /\ l[i].title = notes[l[i].id].title
                 /\ l[i].content = notes[l[i].id].content
           /\ \A v \in DOMAIN users \ {u} :
                 \A j \in DOMAIN get_notes(TokenOf(v)).body.notes :
                     get_notes(TokenOf(v)).body.notes[j].id \notin owned

\* a user has just listed their own notes while another user owns a note too
C9_Witness ==
    /\ response.op = "get_notes"
    /\ response.status = 200
    /\ Len(response.body.notes) >= 1
    /\ \E n \in DOMAIN notes : notes[n].user_id # response.user

\* C10: for every user U, list-shared-with-me(U) returns one entry per
\* shared_notes row whose grantee is U and no other entry; each entry has
\* isShared = true, canEdit equal to the row's current can_edit, and the
\* username of the note's owner.
C10_ListShared ==
    \A u \in DOMAIN users :
        LET r == get_shared_notes(TokenOf(u))
            l == r.body.notes
            rows == {s \in DOMAIN shared_notes : shared_notes[s].shared_with_user_id = u}
        IN /\ r.status = 200
           /\ Len(l) = Cardinality(rows)
           /\ \A s \in rows : \E i \in DOMAIN l :
                 /\ l[i].id = shared_notes[s].note_id
                 /\ l[i].isShared = TRUE
                 /\ l[i].canEdit = (shared_notes[s].can_edit = 1)
                 /\ l[i].owner = users[notes[shared_notes[s].note_id].user_id].username
                 /\ l[i].title = notes[shared_notes[s].note_id].title
           /\ \A i \in DOMAIN l : \E s \in rows : l[i].id = shared_notes[s].note_id

\* a grantee has just listed two shared notes, one read-only and one editable
C10_Witness ==
    /\ response.op = "get_shared_notes"
    /\ response.status = 200
    /\ Len(response.body.notes) = 2
    /\ response.body.notes[1].canEdit # response.body.notes[2].canEdit

\* C11: a share request by the owner of the note that names a grantee (a
\* username in main.py, an email in routers/share.py) matching no user fails
\* with 404 NotFound and commits nothing: no shared_notes row is created.
C11_UnknownGrantee ==
    \A u \in DOMAIN users, n \in DOMAIN notes, b \in BOOLEAN :
        IsOwner(u, n) =>
            /\ \A name \in Usernames :
                  (\A v \in DOMAIN users : users[v].username # name) =>
                      LET r == share_note(n, [username |-> name, can_edit |-> b], TokenOf(u))
                      IN r.status = 404 /\ NothingChanged(r)
            /\ \A e \in Emails :
                  (\A v \in DOMAIN users : users[v].email # e) =>
                      LET q == share_router_share_note(n, [email |-> e, can_edit |-> b],
                                                       TokenOf(u))
                      IN q.status = 404 /\ NothingChanged(q)

\* the owner's share of their own note has just failed with 404 while another
\* user is registered: the grantee named matches no user
C11_Witness ==
    /\ response.op = "share_note"
    /\ response.status = 404
    /\ IsOwner(response.user, response.note_id)
    /\ Cardinality(DOMAIN users) = 2

\* C12: unshare(owner, N, G) removes exactly the shared_notes row (N, G) and
\* leaves every other row, every note and every user as they were when that
\* row exists; when there is no row (N, G), or no user G, it fails with 404
\* NotFound and commits nothing.
C12_UnshareExact ==
    \A u \in DOMAIN users, n \in DOMAIN notes :
        IsOwner(u, n) =>
            /\ \A name \in Usernames :
                  LET r == unshare_note(n, name, TokenOf(u))
                      rows == {s \in DOMAIN shared_notes :
                                 /\ shared_notes[s].note_id = n
                                 /\ users[shared_notes[s].shared_with_user_id].username = name}
                  IN IF rows # {}
                     THEN /\ r.status = 200
                          /\ DOMAIN r.shared_notes = DOMAIN shared_notes \ rows
                          /\ \A s \in DOMAIN r.shared_notes : r.shared_notes[s] = shared_notes[s]
                          /\ r.notes = notes /\ r.users = users
                     ELSE r.status = 404 /\ NothingChanged(r)
            /\ \A g \in UserIds :
                  LET q == share_router_unshare_note(n, g, TokenOf(u))
                  IN IF ShareRows(n, g) # {}
                     THEN /\ q.status = 200
                          /\ DOMAIN q.shared_notes = DOMAIN shared_notes \ ShareRows(n, g)
                          /\ \A s \in DOMAIN q.shared_notes : q.shared_notes[s] = shared_notes[s]
                          /\ q.notes = notes /\ q.users = users
                     ELSE q.status = 404 /\ NothingChanged(q)

\* an unshare has just removed the only row of a note and the grantee's row
\* on another note still stands
C12_Witness ==
    /\ response.op = "unshare_note"
    /\ response.status = 200
    /\ \A s \in DOMAIN shared_notes : shared_notes[s].note_id # response.note_id
    /\ \E s \in DOMAIN shared_notes : shared_notes[s].shared_with_user_id # response.user

\* update requests tried on every state: those of the requests, one that
\* supplies every field empty, and one that supplies a repeated tag only
UpdateProbes ==
    NoteUpdateRequests \cup
    { [title |-> "",   content |-> "",   tags |-> Some(<<>>)],
      [title |-> None, content |-> None, tags |-> Some(<<TagHome, TagHome>>)] }

\* C13: a successful update_note overwrites exactly the fields among title,
\* content and tags that the caller supplied (an empty string or an empty list
\* is a supplied value), leaves each field the caller did not supply at its
\* previous value, and always sets updated_at to the current time, also when
\* no field is supplied; the note's owner, id and created_at, every other
\* note, every shared_notes row and every user are unchanged.
C13_PartialUpdate ==
    \A u \in DOMAIN users, n \in DOMAIN notes, req \in UpdateProbes :
        LET r == update_note(n, req, TokenOf(u))
        IN r.status = 200 =>
              /\ DOMAIN r.notes = DOMAIN notes
              /\ r.notes[n].title = (IF req.title # None THEN req.title ELSE notes[n].title)
              /\ r.notes[n].content =
                    (IF req.content # None THEN req.content ELSE notes[n].content)
              /\ IF req.tags # Nothing
                 THEN DecodeTags(r.notes[n].tags) = req.tags[1]
                 ELSE r.notes[n].tags = notes[n].tags
              /\ r.notes[n].updated_at = now
              /\ r.notes[n].updated_at > notes[n].updated_at
              /\ r.notes[n].user_id = notes[n].user_id
              /\ r.notes[n].created_at = notes[n].created_at
              /\ \A m \in DOMAIN notes \ {n} : r.notes[m] = notes[m]
              /\ r.shared_notes = shared_notes
              /\ r.users = users

\* an update that supplied the title alone has just succeeded: the note has
\* the new title, the content and tags it was created with and a later
\* updated_at
C13_Witness ==
    /\ response.op = "update_note"
    /\ response.status = 200
    /\ notes[response.note_id].title = "List"
    /\ notes[response.note_id].content = "milk,eggs"
    /\ DecodeTags(notes[response.note_id].tags) = <<TagHome>>
    /\ notes[response.note_id].updated_at > notes[response.note_id].created_at

\* C14: the owner's delete of a note removes every shared_notes row of that
\* note in the same commit and no other row, so that in every reachable state
\* each shared_notes row references an existing note and an existing grantee,
\* and every entry of every user's shared-with-me list is an existing note.
C14_DeleteCascades ==
    /\ \A s \in DOMAIN shared_notes :
          /\ shared_notes[s].note_id \in DOMAIN notes
          /\ shared_notes[s].shared_with_user_id \in DOMAIN users
    /\ \A u \in DOMAIN users, n \in DOMAIN notes :
          IsOwner(u, n) =>
              LET r == delete_note(n, TokenOf(u))
              IN /\ r.status = 200
                 /\ n \notin DOMAIN r.notes
                 /\ DOMAIN r.shared_notes =
                       {s \in DOMAIN shared_notes : shared_notes[s].note_id # n}
                 /\ \A s \in DOMAIN r.shared_notes : r.shared_notes[s] = shared_notes[s]
    /\ \A g \in DOMAIN users :
          LET r == get_shared_notes(TokenOf(g))
          IN /\ r.status = 200
             /\ \A i \in DOMAIN r.body.notes : r.body.notes[i].id \in DOMAIN notes

\* a delete has just removed a note while shares exist: of the two rows that
\* were inserted, the one of the other note stands and is still listed
C14_Witness ==
    /\ response.op = "delete_note"
    /\ response.status = 200
    /\ response.note_id \notin DOMAIN notes
    /\ DOMAIN shared_notes = {2}
    /\ \E g \in DOMAIN users : Len(get_shared_notes(TokenOf(g)).body.notes) = 1

\* tag lists tried on every state: the empty list, a repeated tag, an empty
\* tag, and tags made of the characters json.dumps escapes or uses as syntax
TagLists ==
    { <<>>,
      <<TagHome>>,
      <<TagHome, TagHome>>,
      <<TagQuote, TagHome>>,
      <<TagHome, TagQuote, TagHome>>,
      << <<>> >>,
      << <<"\\">>, <<"\\", "\"">> >>,
      << <<",", " ">>, <<"]">>, <<"[", "\"", "]">> >> }

\* C15: for every tag list T (the empty list and lists with repeated tags
\* included), the row create_note writes for tags T, and the row update_note
\* writes for tags T, are read back by the listing with a tag list equal to T
\* in content and order; in every reachable state the tag list of every entry
\* of list-owned and of list-shared-with-me encodes to the stored string.
C15_TagsRoundTrip ==
    /\ \A u \in DOMAIN users, T \in TagLists :
          LET r == create_note([title |-> "t", content |-> "c", tags |-> T], TokenOf(u))
              id == NextId(notes)
          IN /\ r.status = 200
             /\ NoteResponse(id, r.notes[id], users[u].username, FALSE, TRUE).tags = T
    /\ \A u \in DOMAIN users, n \in DOMAIN notes, T \in TagLists :
          LET r == update_note(n, [title |-> None, content |-> None, tags |-> Some(T)],
                               TokenOf(u))
          IN r.status = 200 =>
                NoteResponse(n, r.notes[n], users[notes[n].user_id].username,
                             u # notes[n].user_id, TRUE).tags = T
    /\ \A u \in DOMAIN users :
          LET owned == get_notes(TokenOf(u)).body.notes
              shared == get_shared_notes(TokenOf(u)).body.notes
          IN /\ \A i \in DOMAIN owned : json_dumps(owned[i].tags) = notes[owned[i].id].tags
             /\ \A i \in DOMAIN shared : json_dumps(shared[i].tags) = notes[shared[i].id].tags

\* a grantee has just listed a shared note whose tags an update set to a tag
\* with a quote followed by a plain tag
C15_Witness ==
    /\ response.op = "get_shared_notes"
    /\ response.status = 200
    /\ \E i \in DOMAIN response.body.notes :
          response.body.notes[i].tags = <<TagQuote, TagHome>>

(***************************************************************************)
(* A database whose note rows another writer left behind: the tags column  *)
(* holds what that writer stored, and the list handlers read it            *)
(***************************************************************************)
\* stored strings that are empty or not JSON
UndecodableTagStrings ==
    { <<>>,
      <<"[">>,
      <<"h">>,
      <<"[", "\"", "h", "]">>,
      <<"[", "\"", "h", "\"", ",", "]">> }

\* stored strings that are JSON for the list ["h"]
DecodableTagStrings ==
    { <<"[", "\"", "h", "\"", "]">>,
      <<" ", "[", " ", "\"", "h", "\"", " ", "]">> }

StoredTagStrings == UndecodableTagStrings \cup DecodableTagStrings

StoredUser(email, username, password) ==
    [email |-> email, username |-> username, name |-> username,
     hashed_password |-> get_password_hash(password),
     google_id |-> None, auth_provider |-> "local"]

StoredNote(title, tags, time) ==
    [title |-> title, content |-> "", tags |-> tags,
     created_at |-> time, updated_at |-> time, user_id |-> 1]

StoredShare(note_id, can_edit) ==
    [note_id |-> note_id, shared_with_user_id |-> 2, can_edit |-> can_edit]

\* two accounts, two notes of the first account with any of the stored tag
\* strings, and none, one or both of the notes shared with the second account
StoredInit ==
    /\ users = <<StoredUser("alice@x", "alice", "secret1"),
                 StoredUser("bob@x", "bob", "secret2")>>
    /\ \E t1 \in StoredTagStrings, t2 \in StoredTagStrings :
          notes = <<StoredNote("Groceries", t1, 0), StoredNote("Todo", t2, 1)>>
    /\ shared_notes \in { <<>>,
                          <<StoredShare(1, 0)>>,
                          <<StoredShare(1, 0), StoredShare(2, 1)>> }
    /\ now = 2
    /\ response = [op |-> "start", status |-> 0, user |-> 0, note_id |-> 0,
                   body |-> Message("")]
    /\ sessions = <<>>

ListNext ==
    \/ GetNotes
    \/ GetSharedNotes

StoredSpec == StoredInit /\ [][ListNext]_vars

\* the entries of list l are the notes ids, once each, and each entry has an
\* empty tag list when the stored string is empty or not JSON, the stored
\* list otherwise
FallbackEntries(l, ids) ==
    /\ Len(l) = Cardinality(ids)
    /\ \A n \in ids : \E i \in DOMAIN l :
          /\ l[i].id = n
          /\ l[i].title = notes[n].title
          /\ notes[n].tags \in UndecodableTagStrings => l[i].tags = <<>>
          /\ notes[n].tags \in DecodableTagStrings => l[i].tags = <<TagHome>>

\* C16: when the stored tags of a note are empty or do not decode, list-owned
\* and list-shared-with-me still answer 200 and return that note with an empty
\* tag list; every other note of the result is returned as well, with its own
\* tags.
C16_DecodeFallback ==
    \A u \in DOMAIN users :
        LET owned == get_notes(TokenOf(u))
            shared == get_shared_notes(TokenOf(u))
        IN /\ owned.status = 200
           /\ FallbackEntries(owned.body.notes,
                              {n \in DOMAIN notes : notes[n].user_id = u})
           /\ shared.status = 200
           /\ FallbackEntries(shared.body.notes,
                              {shared_notes[s].note_id : s \in
                                  {x \in DOMAIN shared_notes :
                                      shared_notes[x].shared_with_user_id = u}})

\* the owner has just listed two notes: the first, whose stored tags are not
\* JSON, with an empty tag list, the second with the tags it stores
C16_Witness ==
    /\ response.op = "get_notes"
    /\ response.status = 200
    /\ Len(response.body.notes) = 2
    /\ notes[1].tags = <<"[", "\"", "h", "]">>
    /\ response.body.notes[1].tags = <<>>
    /\ response.body.notes[2].tags = <<TagHome>>

\* registrations tried on every state: every pairing of the emails and the
\* usernames in use with a new email and a new username, with a password of
\* valid length and with one that is too short
RegisterProbes ==
    [email : {"alice@x", "bob@x", "alice@g", "alice@h", "new@x"},
     username : {"alice", "bob", "alice1", "alice2", "new"},
     password : {"secret1", "pw"},
     name : {None}]

\* C17: a registration whose email equals an existing user's email fails with
\* 400, and so does one whose username equals an existing user's username
\* (the accounts created by external login included); with a password of
\* valid length the detail names the conflict, the email first.  In both cases
\* the users table is unchanged and the response carries no token.
C17_RegisterConflict ==
    \A user \in RegisterProbes :
        LET r == register(user)
            email_taken == \E v \in DOMAIN users : users[v].email = user.email
            username_taken == \E v \in DOMAIN users : users[v].username = user.username
        IN /\ (email_taken \/ username_taken) =>
                 /\ r.status = 400
                 /\ NothingChanged(r)
                 /\ r.body.access_token = <<>>
           /\ (email_taken /\ PasswordLen(user.password) \in 6 .. 72) =>
                 r.body.message = "Email already registered"
           /\ (~email_taken /\ username_taken /\ PasswordLen(user.password) \in 6 .. 72) =>
                 r.body.message = "Username already taken"

\* a registration has just been refused for its username, which the account
\* of an external login holds
C17_Witness ==
    /\ response.op = "register"
    /\ response.status = 400
    /\ response.body.message = "Username already taken"
    /\ \E v \in DOMAIN users : users[v].auth_provider = "google"

\* an account is local with a password hash, or external without one
ProviderConsistent(row) ==
    \/ row.auth_provider = "local" /\ row.hashed_password # <<>>
    \/ row.auth_provider = "google" /\ row.hashed_password = <<>>

\* the outcomes of every registration, local login and external login tried
\* on the current state
AuthOutcomes ==
    {register(user) : user \in RegisterProbes}
    \cup {login([identifier |-> identifier, password |-> password]) :
             identifier \in LoginIdentifiers, password \in LoginPasswords}
    \cup {google_auth(idinfo) : idinfo \in GoogleTokens}

\* C18: in every reachable state every user is either local with a password
\* hash present or external (google) with the password hash absent, and never
\* both or neither; no registration, local login, first or repeated external
\* login commits a users table in which an account is otherwise, or changes
\* the provider or the hash of an existing account.
C18_ProviderInvariant ==
    /\ \A u \in DOMAIN users : ProviderConsistent(users[u])
    /\ \A r \in AuthOutcomes :
          /\ \A u \in DOMAIN r.users : ProviderConsistent(r.users[u])
          /\ \A u \in DOMAIN users :
                /\ u \in DOMAIN r.users
                /\ r.users[u].auth_provider = users[u].auth_provider
                /\ r.users[u].hashed_password = users[u].hashed_password

\* a repeated external login has just succeeded on an existing external
\* account while a local account exists
C18_Witness ==
    /\ response.op = "google_auth"
    /\ response.status = 200
    /\ response.user \in DOMAIN users
    /\ users[response.user].auth_provider = "google"
    /\ \E v \in DOMAIN users : users[v].auth_provider = "local"

\* the accounts a login identifier matches by email or by username
Matched(identifier) ==
    {v \in DOMAIN users : users[v].email = identifier \/ users[v].username = identifier}

\* C19 as stated: local login fails with 401 Unauthorized when no user matches
\* the identifier, when the matched account is external-identity-only and
\* when the password does not match the stored hash; a token is issued only
\* when the matched local account's password verifies; the users table never
\* changes.
C19_LoginUnauthorized ==
    \A identifier \in LoginIdentifiers, password \in LoginPasswords :
        LET r == login([identifier |-> identifier, password |-> password])
        IN /\ Matched(identifier) = {} => r.status = 401
           /\ \A v \in Matched(identifier) :
                 /\ users[v].auth_provider = "google" => r.status = 401
                 /\ users[v].hashed_password # get_password_hash(password) => r.status = 401
           /\ r.body.access_token # <<>> =>
                 \E v \in Matched(identifier) :
                     /\ users[v].auth_provider = "local"
                     /\ users[v].hashed_password = get_password_hash(password)
           /\ NothingChanged(r)

\* C19 (amended): local login fails with 401 Unauthorized when no user
\* matches the identifier and when the matched local account's password does
\* not match the stored hash; when the matched account is external (google)
\* it fails with 400 and issues no token, whatever the password; it answers
\* 200 with a token for the matched account's email only when the matched
\* local account's password verifies; the users table never changes.
C19_LoginOutcomes ==
    \A identifier \in LoginIdentifiers, password \in LoginPasswords :
        LET r == login([identifier |-> identifier, password |-> password])
        IN /\ Cardinality(Matched(identifier)) <= 1
           /\ Matched(identifier) = {} => r.status = 401 /\ r.body.access_token = <<>>
           /\ \A v \in Matched(identifier) :
                 /\ users[v].auth_provider = "google" =>
                       r.status = 400 /\ r.body.access_token = <<>>
                 /\ (/\ users[v].auth_provider = "local"
                     /\ users[v].hashed_password # get_password_hash(password)) =>
                       r.status = 401 /\ r.body.access_token = <<>>
                 /\ (/\ users[v].auth_provider = "local"
                     /\ users[v].hashed_password = get_password_hash(password)) =>
                       /\ r.status = 200
                       /\ r.body.access_token = <<create_access_token(users[v].email)>>
           /\ NothingChanged(r)

\* a password login on an external account has just been refused with 400
C19_Witness ==
    /\ response.op = "login"
    /\ response.status = 400
    /\ response.user \in DOMAIN users
    /\ users[response.user].auth_provider = "google"
    /\ \E v \in DOMAIN users : users[v].auth_provider = "local"

\* no user has the username
Free(username) == \A v \in DOMAIN users : users[v].username # username

\* C20: on an external login for an email no user has, the username loop ends
\* and, when the account is provisioned, its username is one no existing user
\* has: the email's local part when that is free, otherwise the local part
\* followed by the smallest counter k >= 1 for which the result is free; the
\* login is refused only when another account holds the google id.
C20_GeneratedUsername ==
    \A idinfo \in GoogleTokens :
        (idinfo.valid /\ \A v \in DOMAIN users : users[v].email # idinfo.email) =>
            LET r == google_auth(idinfo)
                id == NextId(users)
                base == LocalPart(idinfo.email)
            IN /\ (r.status = 200) <=> (\A v \in DOMAIN users : users[v].google_id # idinfo.sub)
               /\ r.status # 200 => NothingChanged(r)
               /\ r.status = 200 =>
                     /\ DOMAIN r.users = DOMAIN users \cup {id}
                     /\ \A v \in DOMAIN users : r.users[v] = users[v]
                     /\ r.users[id].email = idinfo.email
                     /\ Free(r.users[id].username)
                     /\ Free(base) => r.users[id].username = base
                     /\ ~Free(base) =>
                           \E k \in 1 .. Cardinality(DOMAIN users) :
                               /\ r.users[id].username = base \o ToString(k)
                               /\ \A j \in 1 .. (k - 1) : ~Free(base \o ToString(j))

\* an external login has just provisioned an account whose username took two
\* rounds of the loop: the local part and the local part with 1 were taken
C20_Witness ==
    /\ response.op = "google_auth"
    /\ response.status = 200
    /\ \E v \in DOMAIN users : users[v].username = "alice2" /\ users[v].auth_provider = "google"
    /\ ~Free("alice") /\ ~Free("alice1")

\* C21: external login fails closed: whenever verification of the external
\* identity token fails, for whatever reason, the request is answered 401
\* Unauthorized, no user is created or modified and no session token is
\* issued.
C21_FailsClosedUnauthorized ==
    \A idinfo \in GoogleTokens :
        ~idinfo.valid =>
            LET r == google_auth(idinfo)
            IN /\ r.status = 401
               /\ NothingChanged(r)
               /\ r.body.access_token = <<>>

\* the token of outcome r has the numeric id of the account with this email
\* as its subject
SubjectIsIdOf(r, email) ==
    \E u \in DOMAIN r.users :
        /\ r.users[u].email = email
        /\ r.body.access_token[1].sub = ToString(u)

\* C22: every session token issued by register, login and external login
\* carries the immutable numeric id of the user as its subject (and so keeps
\* resolving to that user whatever happens to the user's mutable fields).
C22_SubjectIsUserId ==
    /\ \A user \in RegisterProbes :
          LET r == register(user)
          IN r.status = 200 => SubjectIsIdOf(r, user.email)
    /\ \A identifier \in LoginIdentifiers, password \in LoginPasswords :
          LET r == login([identifier |-> identifier, password |-> password])
          IN r.status = 200 => SubjectIsIdOf(r, users[UserByIdentifier(identifier)].email)
    /\ \A idinfo \in GoogleTokens :
          LET r == google_auth(idinfo)
          IN r.status = 200 => SubjectIsIdOf(r, idinfo.email)

\* the authenticated requests tried with one token on the current state
TokenProbes(token) ==
    {get_notes(token), get_shared_notes(token)}
    \cup {create_note(note, token) : note \in NoteRequests}
    \cup {update_note(n, note, token) : n \in AllNoteIds, note \in NoteUpdateRequests}
    \cup {delete_note(n, token) : n \in AllNoteIds}
    \cup {share_note(n, [username |-> g, can_edit |-> e], token) :
             n \in AllNoteIds, g \in Usernames, e \in BOOLEAN}
    \cup {unshare_note(n, g, token) : n \in AllNoteIds, g \in Usernames}

\* the tokens tried on every state: every subject, issued up to one lifetime
\* before the start and up to now, signed with either key
ProbedTokens ==
    {jwt_encode(sub, exp, key) :
        sub \in Emails, exp \in 0 .. now + TokenLifetime, key \in {SECRET_KEY, ForgedKey}}

Seen(r) == <<r.status, r.body>>

\* C24: existence is not leaked: a caller who is neither the owner nor a
\* grantee of note n gets from update, delete, share and unshare on n the
\* same error as from the same request on an id m that no note has.
C24_NoExistenceLeak ==
    \A u \in DOMAIN users, n \in DOMAIN notes, m \in AllNoteIds \ DOMAIN notes :
        (~IsOwner(u, n) /\ ShareRows(n, u) = {}) =>
            /\ \A note \in NoteUpdateRequests :
                  /\ update_note(n, note, TokenOf(u)).status # 200
                  /\ Seen(update_note(n, note, TokenOf(u))) = Seen(update_note(m, note, TokenOf(u)))
            /\ delete_note(n, TokenOf(u)).status # 200
            /\ Seen(delete_note(n, TokenOf(u))) = Seen(delete_note(m, TokenOf(u)))
            /\ \A g \in Usernames, e \in BOOLEAN :
                  LET share_req == [username |-> g, can_edit |-> e]
                  IN /\ share_note(n, share_req, TokenOf(u)).status # 200
                     /\ Seen(share_note(n, share_req, TokenOf(u)))
                            = Seen(share_note(m, share_req, TokenOf(u)))
            /\ \A g \in Usernames :
                  /\ unshare_note(n, g, TokenOf(u)).status # 200
                  /\ Seen(unshare_note(n, g, TokenOf(u))) = Seen(unshare_note(m, g, TokenOf(u)))
            /\ \A g \in Emails, e \in BOOLEAN :
                  LET share_request == [email |-> g, can_edit |-> e]
                  IN /\ share_router_share_note(n, share_request, TokenOf(u)).status # 200
                     /\ Seen(share_router_share_note(n, share_request, TokenOf(u)))
                            = Seen(share_router_share_note(m, share_request, TokenOf(u)))
            /\ \A g \in UserIds :
                  /\ share_router_unshare_note(n, g, TokenOf(u)).status # 200
                  /\ Seen(share_router_unshare_note(n, g, TokenOf(u)))
                         = Seen(share_router_unshare_note(m, g, TokenOf(u)))

\* C26: ownership is not transferable: a note that exists before and after a
\* request has the same owner, whoever sent the request (an editing grantee
\* included), and a note that appears was created by the caller of a
\* create_note, who is its owner.
C26_OwnerFixed ==
    [][/\ \A n \in DOMAIN notes \cap DOMAIN notes' :
              notes'[n].user_id = notes[n].user_id
       /\ \A n \in DOMAIN notes' \ DOMAIN notes :
              /\ response'.op = "create_note"
              /\ response'.user = notes'[n].user_id]_vars

\* a grantee with edit permission has just saved the note of another user
C26_Witness ==
    /\ response.op = "update_note"
    /\ response.status = 200
    /\ response.note_id \in DOMAIN notes
    /\ notes[response.note_id].user_id # response.user
    /\ HasEditShare(response.note_id, response.user)

\* request bodies of POST /notes, with and without "tags"
CreateProbes ==
    [title : {"Groceries"},
     content : {"milk,eggs", ""},
     tags : {Nothing, Some(<<>>), Some(<<TagHome>>), Some(<<TagQuote, TagHome>>)}]

\* C27: create_note by an authenticated user always succeeds and adds exactly
\* one note, owned by the caller, with the supplied title, content and tag
\* list (the empty list when no tags are supplied), under an id that no
\* existing note has; it creates no share row and changes no existing note
\* and no user.
C27_CreateNote ==
    \A u \in DOMAIN users, payload \in CreateProbes :
        LET r == create_note(NoteRequest(payload), TokenOf(u))
            new == DOMAIN r.notes \ DOMAIN notes
        IN /\ r.status = 200
           /\ Cardinality(new) = 1
           /\ \A n \in new :
                 /\ r.notes[n].user_id = u
                 /\ r.notes[n].title = payload.title
                 /\ r.notes[n].content = payload.content
                 /\ DecodeTags(r.notes[n].tags)
                        = (IF payload.tags = Nothing THEN <<>> ELSE payload.tags[1])
           /\ \A n \in DOMAIN notes : n \in DOMAIN r.notes /\ r.notes[n] = notes[n]
           /\ r.shared_notes = shared_notes
           /\ r.users = users

\* a note has just been created while another user owns a note and a share
\* row exists
C27_Witness ==
    /\ response.op = "create_note"
    /\ response.status = 200
    /\ response.note_id \in DOMAIN notes
    /\ notes[response.note_id].user_id = response.user
    /\ \E n \in DOMAIN notes : n # response.note_id /\ notes[n].user_id # response.user
    /\ shared_notes # <<>>

\* the tokens tried on every state: the one of each account, one of an address
\* without account, an expired one and a forged one
FrameTokens ==
    Tokens \cup {create_access_token("nobody@x"),
                 jwt_encode("alice@x", now, SECRET_KEY),
                 jwt_encode("alice@x", now + TokenLifetime, ForgedKey)}

\* the outcomes of every register, login, create, update, delete, share and
\* unshare request tried on the current state
WriteOutcomes ==
    {register(user) : user \in RegisterProbes \cup RegisterRequests}
    \cup {login([identifier |-> identifier, password |-> password]) :
             identifier \in LoginIdentifiers, password \in LoginPasswords}
    \cup UNION {TokenProbes(token) \ {get_notes(token), get_shared_notes(token)} :
                   token \in FrameTokens}
    \cup UNION {{share_router_share_note(n, [email |-> g, can_edit |-> e], token) :
                    n \in AllNoteIds, g \in Emails, e \in BOOLEAN}
                \cup {share_router_unshare_note(n, g, token) : n \in AllNoteIds, g \in UserIds} :
                   token \in FrameTokens}

\* C30: every register, login, create, update, delete, share or unshare
\* request that is answered with an error (401, 403, 404, 400, the conflicts
\* included) leaves the user, note and share tables exactly as they were.
C30_ErrorsChangeNothing ==
    \A r \in WriteOutcomes :
        r.status \in {400, 401, 403, 404} =>
            /\ r.users = users
            /\ r.notes = notes
            /\ r.shared_notes = shared_notes

\* the owner of a shared note has just been refused a share with themselves
C30_Witness ==
    /\ response.op = "share_note"
    /\ response.status = 400
    /\ response.note_id \in DOMAIN notes
    /\ notes[response.note_id].user_id = response.user
    /\ \E g \in DOMAIN users : ShareRows(response.note_id, g) # {}

(***************************************************************************)
(* Requests in two steps.  The sync handlers of main.py run in worker      *)
(* threads, and more than one server process may share the database, so    *)
(* another request can commit between the queries of a handler and its     *)
(* db.commit().  A session holds what the handler has queried and assigned;*)
(* the commit flushes it in one transaction.                               *)
(***************************************************************************)
MaxSessions == 2

\* PUT /notes/{note_id} bodies of two editors: both supply the title, one of
\* them the title the note already has
RaceUpdateRequests ==
    { [title |-> "List",      content |-> None,    tags |-> Nothing],
      [title |-> "Groceries", content |-> "bread", tags |-> Nothing],
      [title |-> None,        content |-> "soap",  tags |-> Some(<<TagHome>>)] }

\* POST /auth/register bodies that collide with each other or with a first
\* Google login on the email or on the username
RaceRegisterRequests ==
    { [email |-> "new@x",   username |-> "new",    password |-> "secret1", name |-> None],
      [email |-> "new@x",   username |-> "new2",   password |-> "secret1", name |-> None],
      [email |-> "alice@g", username |-> "alice1", password |-> "secret1", name |-> None] }

\* the sessions that have committed or failed
Completed == {i \in 1 .. Len(sessions) : sessions[i].pc = "done"}

\* the unit of work flushes a loaded row as UPDATE ... SET <columns> WHERE
\* id = ..., with the columns whose assigned value differs from the value the
\* session loaded; every other column keeps what the table holds
UnitOfWorkUpdate(row, loaded, assigned) ==
    [f \in DOMAIN row |-> IF assigned[f] # loaded[f] THEN assigned[f] ELSE row[f]]

\* UNIQUE(email), UNIQUE(username), UNIQUE(google_id): the INSERT of the
\* row raises IntegrityError
UniqueViolation(row) ==
    \E u \in DOMAIN users :
        \/ users[u].email = row.email
        \/ users[u].username = row.username
        \/ row.google_id # None /\ users[u].google_id = row.google_id

\* update_note up to db.commit(): the row it loaded and the row after its
\* assignments, updated_at = datetime.utcnow() included
update_note_session(note_id, note, token) ==
    LET user == Caller(token)
        db_note == EditableNote(note_id, user)
    IN [op |-> "update_note", pc |-> "commit", status |-> 0, seq |-> 0,
        user |-> user, note_id |-> db_note, req |-> note,
        loaded |-> notes[db_note],
        assigned |-> ApplyUpdate(notes[db_note], note, now)]

\* db.commit() of update_note; the UPDATE of a row that is gone raises
\* StaleDataError
update_note_commit(s) ==
    IF s.note_id \notin DOMAIN notes THEN HTTPException(500)
    ELSE Outcome(200, Message("Note updated successfully"), users,
                 [notes EXCEPT ![s.note_id] = UnitOfWorkUpdate(@, s.loaded, s.assigned)],
                 shared_notes, now)

\* share_note up to db.commit(): existing_share as the query found it
share_note_session(note_id, share_req, token) ==
    LET user == Caller(token)
        share_with_user == UserByUsername(share_req.username)
        existing_share == FindShare(note_id, share_with_user)
    IN [op |-> "share_note", pc |-> "commit", status |-> 0, seq |-> 0,
        user |-> user, note_id |-> note_id, share_with_user |-> share_with_user,
        existing_share |-> existing_share,
        loaded_can_edit |-> IF existing_share # 0 THEN shared_notes[existing_share].can_edit
                            ELSE 0,
        can_edit |-> EditFlag(share_req.can_edit)]

\* db.commit() of share_note: the UPDATE of existing_share when its can_edit
\* was changed, or the INSERT of the new row
share_note_commit(s) ==
    IF s.existing_share = 0
    THEN Outcome(200, ShareMessage(s.note_id, s.share_with_user), users, notes,
                 Put(shared_notes, NextId(shared_notes),
                     [note_id |-> s.note_id,
                      shared_with_user_id |-> s.share_with_user,
                      can_edit |-> s.can_edit]),
                 now)
    ELSE IF s.can_edit = s.loaded_can_edit
    THEN Outcome(200, ShareMessage(s.note_id, s.share_with_user), users, notes,
                 shared_notes, now)
    ELSE IF s.existing_share \notin DOMAIN shared_notes THEN HTTPException(500)
    ELSE Outcome(200, ShareMessage(s.note_id, s.share_with_user), users, notes,
                 [shared_notes EXCEPT ![s.existing_share].can_edit = s.can_edit], now)

\* register and google_auth (first login) up to db.commit(): the new row
user_session(op, row) ==
    [op |-> op, pc |-> "commit", status |-> 0, seq |-> 0, user |-> 0, note_id |-> 0,
     row |-> row]

\* db.add(new_user); db.commit() inside the try block of register: the
\* IntegrityError is caught by "except Exception" and answered 500
register_commit(s) ==
    IF UniqueViolation(s.row) THEN HTTPError(500, "Registration failed")
    ELSE Outcome(200, TokenResponse(create_access_token(s.row.email)),
                 Put(users, NextId(users), s.row), notes, shared_notes, now)

\* db.add(db_user); db.commit() inside the try block of google_auth
google_auth_commit(s) ==
    IF UniqueViolation(s.row) THEN HTTPError(500, "Authentication failed")
    ELSE Outcome(200, TokenResponse(create_access_token(s.row.email)),
                 Put(users, NextId(users), s.row), notes, shared_notes, now)

\* a handler reaches its db.commit(): the session is opened
Open(s) ==
    /\ Len(sessions) < MaxSessions
    /\ sessions' = Append(sessions, s)

\* db.commit() of session i ends with outcome r, and the client is answered
Close(i, r) ==
    /\ DOMAIN r.shared_notes \subseteq 1 .. MaxShareId
    /\ users' = r.users
    /\ notes' = r.notes
    /\ shared_notes' = r.shared_notes
    /\ sessions' = [sessions EXCEPT ![i].pc = "done", ![i].status = r.status,
                                    ![i].seq = Cardinality(Completed) + 1]
    /\ response' = [op |-> sessions[i].op, status |-> r.status, user |-> sessions[i].user,
                    note_id |-> sessions[i].note_id, body |-> r.body]
    /\ UNCHANGED now

BeginUpdateNote ==
    /\ now <= MaxTime
    /\ \E note_id \in NoteIds, note \in RaceUpdateRequests, token \in Tokens :
          /\ update_note(note_id, note, token).status = 200
          /\ Open(update_note_session(note_id, note, token))
    /\ now' = now + 1
    /\ UNCHANGED <<users, notes, shared_notes, response>>

EndUpdateNote ==
    \E i \in 1 .. Len(sessions) :
        /\ sessions[i].op = "update_note"
        /\ sessions[i].pc = "commit"
        /\ Close(i, update_note_commit(sessions[i]))

BeginShareNote ==
    /\ \E note_id \in NoteIds, username \in Usernames, can_edit \in BOOLEAN, token \in Tokens :
          LET share_req == [username |-> username, can_edit |-> can_edit]
          IN /\ share_note(note_id, share_req, token).status = 200
             /\ Open(share_note_session(note_id, share_req, token))
    /\ UNCHANGED <<users, notes, shared_notes, now, response>>

EndShareNote ==
    \E i \in 1 .. Len(sessions) :
        /\ sessions[i].op = "share_note"
        /\ sessions[i].pc = "commit"
        /\ Close(i, share_note_commit(sessions[i]))

BeginRegister ==
    /\ \E user \in RaceRegisterRequests :
          /\ register(user).status = 200
          /\ Open(user_session("register", register(user).users[NextId(users)]))
    /\ UNCHANGED <<users, notes, shared_notes, now, response>>

EndRegister ==
    \E i \in 1 .. Len(sessions) :
        /\ sessions[i].op = "register"
        /\ sessions[i].pc = "commit"
        /\ Close(i, register_commit(sessions[i]))

\* a first login: no user has the email of the verified token
BeginGoogleAuth ==
    /\ \E idinfo \in GoogleTokens :
          /\ idinfo.valid
          /\ UserByEmail(idinfo.email) = 0
          /\ Open(user_session("google_auth", GoogleUser(idinfo)))
    /\ UNCHANGED <<users, notes, shared_notes, now, response>>

EndGoogleAuth ==
    \E i \in 1 .. Len(sessions) :
        /\ sessions[i].op = "google_auth"
        /\ sessions[i].pc = "commit"
        /\ Close(i, google_auth_commit(sessions[i]))

\* two accounts and a note of the first, shared with the second for editing
\* or not shared
RaceInit ==
    /\ users = <<StoredUser("alice@x", "alice", "secret1"),
                 StoredUser("bob@x", "bob", "secret2")>>
    /\ notes = <<[StoredNote("Groceries", json_dumps(<<TagHome>>), 0)
                     EXCEPT !.content = "milk,eggs"]>>
    /\ shared_notes \in {<<>>, <<StoredShare(1, 1)>>}
    /\ now = 1
    /\ response = [op |-> "start", status |-> 0, user |-> 0, note_id |-> 0,
                   body |-> Message("")]
    /\ sessions = <<>>

RaceNext ==
    \/ BeginUpdateNote
    \/ EndUpdateNote
    \/ BeginShareNote
    \/ EndShareNote
    \/ BeginRegister
    \/ EndRegister
    \/ BeginGoogleAuth
    \/ EndGoogleAuth

RaceSpec == RaceInit /\ [][RaceNext]_vars

\* the completed sessions of handler op that succeeded
Succeeded(op) ==
    {i \in Completed : sessions[i].op = op /\ sessions[i].status = 200}

\* the note row holds every field the update of session i supplied
HoldsSupplied(row, i) ==
    /\ sessions[i].req.title # None => row.title = sessions[i].req.title
    /\ sessions[i].req.content # None => row.content = sessions[i].req.content
    /\ sessions[i].req.tags # Nothing => row.tags = json_dumps(sessions[i].req.tags[1])

\* C25: two authorized editors update the same note concurrently: each update
\* is applied as a whole and the later commit wins.  When an update has just
\* committed, the note holds every field that update supplied, not only part
\* of them; when both have committed, every field both supplied holds the
\* value of the update that committed last.
C25_LastCommitWins ==
    \A i \in Succeeded("update_note"), j \in Succeeded("update_note") :
        (/\ sessions[i].note_id = sessions[j].note_id
         /\ sessions[i].seq < sessions[j].seq
         /\ sessions[j].seq = Cardinality(Completed)
         /\ sessions[j].note_id \in DOMAIN notes) =>
            LET row == notes[sessions[j].note_id]
            IN /\ HoldsSupplied(row, j)
               /\ (sessions[i].req.title # None /\ sessions[j].req.title # None) =>
                      row.title = sessions[j].req.title
               /\ (sessions[i].req.content # None /\ sessions[j].req.content # None) =>
                      row.content = sessions[j].req.content
               /\ (sessions[i].req.tags # Nothing /\ sessions[j].req.tags # Nothing) =>
                      row.tags = json_dumps(sessions[j].req.tags[1])

\* C28: two share requests of the owner for the same (note, grantee) pair
\* that both looked the row up before either committed leave exactly one
\* shared_notes row for the pair, never two.
C28_OneRowPerPair ==
    \A i \in Succeeded("share_note"), j \in Succeeded("share_note") :
        (/\ i # j
         /\ sessions[i].note_id = sessions[j].note_id
         /\ sessions[i].share_with_user = sessions[j].share_with_user) =>
            Cardinality(ShareRows(sessions[i].note_id, sessions[i].share_with_user)) = 1

\* C29: emails and usernames are unique across all users in every reachable
\* state, also when registrations and first external logins interleave
\* between their existence check and their insert; the request that loses
\* the race is answered as a conflict (the 400 register gives a duplicate),
\* not with an internal error, and leaves no user row behind.
C29_RaceLoserConflict ==
    /\ \A u \in DOMAIN users, v \in DOMAIN users :
          u # v => users[u].email # users[v].email /\ users[u].username # users[v].username
    /\ \A i \in Completed :
          sessions[i].op \in {"register", "google_auth"} =>
              sessions[i].status \in {200, 400}
    /\ Cardinality(DOMAIN users)
           = 2 + Cardinality(Succeeded("register") \cup Succeeded("google_auth"))

\* C31: an external login whose verified email belongs to an existing local
\* user is rejected with status 400, not with an internal error, returns no
\* session token and leaves the users table, that user's name, external id,
\* provider and password hash included, as it was.
C31_LocalAccountRejected ==
    \A idinfo \in GoogleTokens, u \in DOMAIN users :
        (idinfo.valid /\ users[u].email = idinfo.email /\ users[u].auth_provider = "local") =>
            LET r == google_auth(idinfo)
            IN /\ r.status = 400
               /\ r.body.access_token = <<>>
               /\ r.users = users

\* a users row as a first Google login leaves it
StoredGoogleUser(email, username, name, google_id) ==
    [email |-> email, username |-> username, name |-> name,
     hashed_password |-> NoHash, google_id |-> google_id, auth_provider |-> "google"]

\* a local account and an external one that owns a note and, in some initial
\* states, is the grantee of a note of the local account
ExternalInit ==
    /\ \E name \in {"Al", "alice"} :
          users = <<StoredUser("alice@x", "alice", "secret1"),
                    StoredGoogleUser("alice@g", "alice1", name, "g1")>>
    /\ notes = <<StoredNote("Groceries", json_dumps(<<TagHome>>), 0),
                 [StoredNote("Todo", json_dumps(<<>>), 1) EXCEPT !.user_id = 2]>>
    /\ shared_notes \in {<<>>, <<StoredShare(1, 0)>>, <<StoredShare(1, 1)>>}
    /\ now = 2
    /\ response = [op |-> "start", status |-> 0, user |-> 0, note_id |-> 0,
                   body |-> Message("")]
    /\ sessions = <<>>

ExternalNext ==
    \/ Register
    \/ Login
    \/ GoogleAuth
    \/ GetNotes
    \/ GetSharedNotes

ExternalSpec == ExternalInit /\ [][ExternalNext]_vars

\* C32: a repeated external login for an existing external-provider user
\* changes only that user's name and external id: no user row is added or
\* removed, every other user row is equal, the user's id, email, username,
\* provider and (absent) password hash are unchanged, the notes and the share
\* rows are equal, so every row that referenced the user still does, and the
\* token issued resolves to the same user, who lists the same notes.
C32_RepeatedLoginFrame ==
    \A idinfo \in GoogleTokens, u \in DOMAIN users :
        (idinfo.valid /\ users[u].email = idinfo.email /\ users[u].auth_provider = "google") =>
            LET r == google_auth(idinfo)
            IN /\ DOMAIN r.users = DOMAIN users
               /\ \A v \in DOMAIN users \ {u} : r.users[v] = users[v]
               /\ r.users[u].email = users[u].email
               /\ r.users[u].username = users[u].username
               /\ r.users[u].auth_provider = users[u].auth_provider
               /\ r.users[u].hashed_password = users[u].hashed_password
               /\ r.notes = notes
               /\ r.shared_notes = shared_notes
               /\ r.status = 200 =>
                     /\ r.users[u].name = GoogleName(idinfo)
                     /\ r.users[u].google_id = idinfo.sub
                     /\ r.body.access_token # <<>>
                     /\ \A v \in DOMAIN r.users :
                           r.users[v].email = r.body.access_token[1].sub <=> v = u
               /\ r.status # 200 => r.users = users

\* a repeated external login has just succeeded, with a token without name,
\* for an external user who owns a note and is the grantee of another
C32_Witness ==
    /\ response.op = "google_auth"
    /\ response.status = 200
    /\ response.user \in DOMAIN users
    /\ users[response.user].auth_provider = "google"
    /\ users[response.user].name = "alice"
    /\ \E n \in DOMAIN notes : notes[n].user_id = response.user
    /\ \E s \in DOMAIN shared_notes : shared_notes[s].shared_with_user_id = response.user

Next ==
    \/ Register
    \/ GetNotes
    \/ GetSharedNotes
    \/ CreateNote
    \/ UpdateNote
    \/ DeleteNote
    \/ ShareNote
    \/ UnshareNote
    \/ ShareRouterShareNote
    \/ ShareRouterUnshareNote

Spec == Init /\ [][Next]_vars

\* the account handlers: they read and write the users table only
AuthNext ==
    \/ Register
    \/ Login
    \/ GoogleAuth

AuthSpec == Init /\ [][AuthNext]_vars

\* sessions over time: clients present every token they may hold, fresh,
\* expired or forged, while the clock advances
SessionNext ==
    \/ Register
    \/ Tick
    \/ GetNotesWith(PresentedTokens)
    \/ CreateNoteWith(PresentedTokens)
    \/ DeleteNoteWith(PresentedTokens)
    \/ ShareNoteWith(PresentedTokens)

SessionSpec == Init /\ [][SessionNext]_vars
====
